---- MODULE Spec2Model ----
(***************************************************************************)
(* Servo motor device class (motors/servo_motor_class.c).                  *)
(*                                                                         *)
(* The model has three parts:                                              *)
(*   - the C arithmetic of servo_motor_class_scale, on byte sequences, so  *)
(*     that the 32-bit unsigned operands, the width of long and the        *)
(*     narrowing to int are computed and not assumed (SpecScale);          *)
(*   - the sysfs attribute handlers of one servo motor and its driver,     *)
(*     one action per handler: Spec over a driver whose calls succeed,     *)
(*     SpecFaulty over faulty hardware, SpecPulse for the limits of the    *)
(*     pulse attributes, SpecRate for the rate attribute;                  *)
(*   - the same handlers cut at their accesses to the motor's fields, run  *)
(*     by two writers at once (SpecConc).                                  *)
(***************************************************************************)
EXTENDS Integers, Sequences, FiniteSets, TLC

VARIABLES
    motor,        \* struct servo_motor_device: the fields the class keeps
    live,         \* TRUE once register_servo_motor has returned 0
    drv,          \* the driver behind motor->ops: the pulse it drives (0: floating)
                  \* and whether its hardware is faulty (its calls may fail)
    last,         \* the last handler that ran: its input, result, driver calls
    long_bits,    \* width of `long` in the build: 32 (the EV3's ARM) or 64
    scale_call,   \* a direct call of servo_motor_class_scale and its result
    conc          \* the two concurrent writers: their handlers and positions

vars == <<motor, live, drv, last, long_bits, scale_call, conc>>

(***************************************************************************)
(* C integers.  An unsigned or a long is a little-endian sequence of       *)
(* bytes (4 bytes for 32 bits, 8 for 64); int values are TLA+ integers.    *)
(***************************************************************************)

RECURSIVE NatToBytes(_, _)
\* the k low bytes of n >= 0
NatToBytes(n, k) ==
    IF k = 0 THEN <<>> ELSE <<n % 256>> \o NatToBytes(n \div 256, k - 1)

\* conversion of an int argument to a 32-bit unsigned parameter (modulo 2^32)
IntToU32(x) ==
    IF x >= 0 THEN NatToBytes(x, 4)
    ELSE LET y == (x + 2147483647) + 1      \* x + 2^31, the low 31 bits
             b == NatToBytes(y, 4)
         IN  [b EXCEPT ![4] = b[4] + 128]

\* conversion of 32 bits to int (two's complement)
U32ToInt(b) ==
    b[1] + 256 * b[2] + 65536 * b[3]
      + 16777216 * (IF b[4] >= 128 THEN b[4] - 256 ELSE b[4])

RECURSIVE AddBytes(_, _, _)
\* a + b + c modulo 2^(8 * Len(a))
AddBytes(a, b, c) ==
    IF a = <<>> THEN <<>>
    ELSE LET t == Head(a) + Head(b) + c
         IN  <<t % 256>> \o AddBytes(Tail(a), Tail(b), t \div 256)

ZeroBytes(k) == [i \in 1..k |-> 0]

\* -a modulo 2^(8 * Len(a))
NegBytes(a) ==
    AddBytes([i \in 1..Len(a) |-> 255 - a[i]], ZeroBytes(Len(a)), 1)

SubBytes(a, b) == AddBytes(a, NegBytes(b), 0)

RECURSIVE MulByte(_, _, _)
\* a * d + c modulo 2^(8 * Len(a)), d one byte
MulByte(a, d, c) ==
    IF a = <<>> THEN <<>>
    ELSE LET t == Head(a) * d + c
         IN  <<t % 256>> \o MulByte(Tail(a), d, t \div 256)

RECURSIVE MulBytes(_, _)
\* a * b modulo 2^(8 * Len(a))
MulBytes(a, b) ==
    IF b = <<>> THEN ZeroBytes(Len(a))
    ELSE LET rest == <<0>> \o SubSeq(MulBytes(a, Tail(b)), 1, Len(a) - 1)
         IN  IF Head(b) = 0 THEN rest
             ELSE AddBytes(MulByte(a, Head(b), 0), rest, 0)

RECURSIVE DivBytes(_, _)
\* unsigned a / n and a % n for a divisor 0 < n < 2^23, most significant byte first
DivBytes(a, n) ==
    IF a = <<>> THEN [q |-> <<>>, r |-> 0]
    ELSE LET hi == DivBytes(Tail(a), n)
             t  == hi.r * 256 + Head(a)
         IN  [q |-> <<t \div n>> \o hi.q, r |-> t % n]

\* the value of a divisor: 32 bits below 2^31
U32ToNat(b) == b[1] + 256 * b[2] + 65536 * b[3] + 16777216 * b[4]

IsNegative(a) == a[Len(a)] >= 128

\* signed a / n truncating toward zero (C's / on long), n > 0
SDivBytes(a, n) ==
    IF IsNegative(a) THEN NegBytes(DivBytes(NegBytes(a), n).q)
    ELSE DivBytes(a, n).q

\* unsigned -> long on a 64-bit build: zero extension
ZExt64(b) == b \o ZeroBytes(4)

(***************************************************************************)
(* servo_motor_class_scale.  The five parameters are unsigned; the         *)
(* callers pass ints (-100, a negated position), converted modulo 2^32.    *)
(* With a 32-bit long, `scaled op= unsigned` is computed in unsigned long  *)
(* (the usual arithmetic conversions) and stored back; with a 64-bit long  *)
(* the unsigned operand is zero-extended and the arithmetic is signed.     *)
(* The caller guarantees in_max > in_min (a divisor below 2^23 here).      *)
(***************************************************************************)
servo_motor_class_scale_mutant(bits, in_min, in_max, out_min, out_max, value) ==
    \* the slip of dividing before multiplying
    (((value - in_min) \div (in_max - in_min)) * (out_max - out_min)) + out_min

servo_motor_class_scale(bits, in_min, in_max, out_min, out_max, value) ==
    LET diff   == SubBytes(IntToU32(value), IntToU32(in_min))
        factor == SubBytes(IntToU32(out_max), IntToU32(out_min))
        div    == U32ToNat(SubBytes(IntToU32(in_max), IntToU32(in_min)))
        base   == IntToU32(out_min)
    IN  IF bits = 32
        THEN LET s1 == diff                         \* long scaled = value - in_min
                 s2 == MulBytes(s1, factor)         \* scaled *= out_max - out_min
                 s3 == DivBytes(s2, div).q          \* scaled /= in_max - in_min
                 s4 == AddBytes(s3, base, 0)        \* scaled += out_min
             IN  U32ToInt(s4)                       \* return scaled
        ELSE LET s1 == ZExt64(diff)
                 s2 == MulBytes(s1, ZExt64(factor))
                 s3 == SDivBytes(s2, div)
                 s4 == AddBytes(s3, ZExt64(base), 0)
             IN  U32ToInt(SubSeq(s4, 1, 4))

\* C's signed division, truncating toward zero, on mathematical integers
TruncDiv(a, b) ==
    IF (a >= 0) = (b >= 0)
    THEN (IF a >= 0 THEN a ELSE -a) \div (IF b >= 0 THEN b ELSE -b)
    ELSE -((IF a >= 0 THEN a ELSE -a) \div (IF b >= 0 THEN b ELSE -b))

LongBits == {32, 64}

(***************************************************************************)
(* Text.  A sysfs write hands the handler the bytes the user wrote; a      *)
(* numeric attribute is a sequence of characters, parsed by sscanf and     *)
(* printed by sprintf.                                                     *)
(***************************************************************************)
DigitChars == <<"0", "1", "2", "3", "4", "5", "6", "7", "8", "9">>

IsDigit(c) == \E d \in 1..10 : DigitChars[d] = c

DigitVal(c) == (CHOOSE d \in 1..10 : DigitChars[d] = c) - 1

RECURSIVE ScanDigits(_, _)
\* the value of the leading digits of buf, after the value acc read so far
ScanDigits(buf, acc) ==
    IF buf = <<>> \/ ~IsDigit(Head(buf)) THEN acc
    ELSE ScanDigits(Tail(buf), 10 * acc + DigitVal(Head(buf)))

\* sscanf(buf, "%d", &value): n is the number of conversions made
ScanInt(buf) ==
    LET neg  == buf # <<>> /\ Head(buf) = "-"
        rest == IF neg THEN Tail(buf) ELSE buf
    IN  IF rest = <<>> \/ ~IsDigit(Head(rest)) THEN [n |-> 0, value |-> 0]
        ELSE [n |-> 1, value |-> IF neg THEN -ScanDigits(rest, 0)
                                        ELSE ScanDigits(rest, 0)]

\* sscanf(buf, "%ud", &value): no sign is accepted; the literal d that follows
\* the conversion does not change the count
ScanUnsigned(buf) ==
    IF buf = <<>> \/ ~IsDigit(Head(buf)) THEN [n |-> 0, value |-> 0]
    ELSE [n |-> 1, value |-> ScanDigits(buf, 0)]

RECURSIVE FormatUnsigned(_)
FormatUnsigned(v) ==
    IF v < 10 THEN <<DigitChars[v + 1]>>
    ELSE FormatUnsigned(v \div 10) \o <<DigitChars[(v % 10) + 1]>>

\* sprintf(buf, "%d", v)
FormatInt(v) == IF v < 0 THEN <<"-">> \o FormatUnsigned(-v) ELSE FormatUnsigned(v)

\* sprintf(buf, "%d\n", v)
FormatLine(v) == FormatInt(v) \o <<"\n">>

(***************************************************************************)
(* Errors (negative errno values) and the driver.                          *)
(***************************************************************************)
EINVAL == 22
ENOSYS == 38
EIO == 5
ENOMEM == 12

\* what a call of motor->ops returns besides its value: a negative errno, when
\* the hardware behind the driver is faulty
DrvErrors(d) == IF d.faulty THEN {-EIO} ELSE {}

\* what motor->ops.set_position can return
DrvRets(d) == {0} \cup DrvErrors(d)

\* one call of the driver made by a handler
DrvCall(fn, arg, ret) == [fn |-> fn, arg |-> arg, ret |-> ret]

RECURSIVE DrvAfter(_, _)
\* the driver after the calls a handler made: an accepted pulse is the one driven
DrvAfter(d, calls) ==
    IF calls = <<>> THEN d
    ELSE DrvAfter(IF Head(calls).fn = "set_position" /\ Head(calls).ret = 0
                  THEN [d EXCEPT !.pulse = Head(calls).arg] ELSE d,
                  Tail(calls))

\* what a handler did: the motor it leaves, its return value, the text it
\* printed (show) and the driver calls it made
Result(m, ret, out, calls) == [motor |-> m, ret |-> ret, out |-> out, calls |-> calls]

servo_motor_command_values == <<"run", "float">>
servo_motor_polarity_values == <<"normal", "inverted">>

(***************************************************************************)
(* The handlers.  m is the motor before the call; r is what the driver's   *)
(* set_position returns if the handler calls it.                           *)
(***************************************************************************)

\* the pulse servo_motor_class_set_position computes for a position and polarity
ScaledPosition_mutant(m, new_position, new_polarity) ==
    \* the slip of negating the position for the normal polarity
    LET p == IF new_polarity = "normal" THEN -new_position ELSE new_position
    IN  IF p > 0
        THEN servo_motor_class_scale(long_bits, 0, 100,
                                     m.mid_pulse_ms, m.max_pulse_ms, p)
        ELSE servo_motor_class_scale(long_bits, -100, 0,
                                     m.min_pulse_ms, m.mid_pulse_ms, p)

ScaledPosition_mutant_range(m, new_position, new_polarity) ==
    \* the slip of scaling both signs of the position from the range 0..100
    LET p == IF new_polarity = "inverted" THEN -new_position ELSE new_position
    IN  IF p > 0
        THEN servo_motor_class_scale(long_bits, 0, 100,
                                     m.mid_pulse_ms, m.max_pulse_ms, p)
        ELSE servo_motor_class_scale(long_bits, 0, 100,
                                     m.min_pulse_ms, m.mid_pulse_ms, p)

ScaledPosition(m, new_position, new_polarity) ==
    LET p == IF new_polarity = "inverted" THEN -new_position ELSE new_position
    IN  IF p > 0
        THEN servo_motor_class_scale(long_bits, 0, 100,
                                     m.mid_pulse_ms, m.max_pulse_ms, p)
        ELSE servo_motor_class_scale(long_bits, -100, 0,
                                     m.min_pulse_ms, m.mid_pulse_ms, p)

servo_motor_class_set_position_mutant(m, new_position, new_polarity, r) ==
    \* the slip of calling the driver whatever the command is
    LET m1 == [m EXCEPT !.polarity = new_polarity, !.position = new_position]
    IN  Result(m1, r, <<>>,
               <<DrvCall("set_position",
                         ScaledPosition(m1, new_position, new_polarity), r)>>)

servo_motor_class_set_position(m, new_position, new_polarity, r) ==
    LET m1 == [m EXCEPT !.polarity = new_polarity, !.position = new_position]
    IN  IF m1.command = "run"
        THEN Result(m1, r, <<>>,
                    <<DrvCall("set_position",
                              ScaledPosition(m1, new_position, new_polarity), r)>>)
        ELSE Result(m1, 0, <<>>, <<>>)

\* {min,mid,max}_pulse_ms_store: the field is written when the text is a number
\* within the attribute's range
pulse_ms_store(m, field, lo, hi, buf) ==
    LET sc == ScanUnsigned(buf)
    IN  IF sc.n # 1 \/ sc.value > hi \/ sc.value < lo
        THEN Result(m, -EINVAL, <<>>, <<>>)
        ELSE Result([m EXCEPT ![field] = sc.value], Len(buf), <<>>, <<>>)

min_pulse_ms_store_mutant(m, buf) ==
    \* the slip of applying the stored position once the bound is stored
    LET res == pulse_ms_store(m, "min_pulse_ms", 300, 700, buf)
    IN  IF res.ret < 0 \/ m.command # "run" THEN res
        ELSE Result(res.motor, res.ret, <<>>,
                    <<DrvCall("set_position",
                              ScaledPosition(res.motor, m.position, m.polarity), 0)>>)

min_pulse_ms_store(m, buf) == pulse_ms_store(m, "min_pulse_ms", 300, 700, buf)

mid_pulse_ms_store_mutant(m, buf) ==
    \* the slip of storing the value in the field of the handler copied from
    pulse_ms_store(m, "min_pulse_ms", 1300, 1700, buf)

mid_pulse_ms_store(m, buf) == pulse_ms_store(m, "mid_pulse_ms", 1300, 1700, buf)

max_pulse_ms_store_mutant(m, buf) ==
    \* the slip of an exclusive upper limit
    pulse_ms_store(m, "max_pulse_ms", 2300, 2699, buf)

max_pulse_ms_store(m, buf) == pulse_ms_store(m, "max_pulse_ms", 2300, 2700, buf)

command_store_mutant(m, buf, r) ==
    \* the slip of applying the stored position on every change of command
    IF \A i \in 1..Len(servo_motor_command_values) :
           servo_motor_command_values[i] # buf
    THEN Result(m, -EINVAL, <<>>, <<>>)
    ELSE IF m.command = buf THEN Result(m, Len(buf), <<>>, <<>>)
    ELSE LET m1  == [m EXCEPT !.command = buf]
             res == servo_motor_class_set_position(m1, m1.position, m1.polarity, r)
         IN  IF res.ret # 0 THEN res
             ELSE Result(res.motor, Len(buf), <<>>, res.calls)

command_store_mutant_rollback(m, buf, r) ==
    \* the stored command put back when the driver fails
    IF \A i \in 1..Len(servo_motor_command_values) :
           servo_motor_command_values[i] # buf
    THEN Result(m, -EINVAL, <<>>, <<>>)
    ELSE IF m.command = buf THEN Result(m, Len(buf), <<>>, <<>>)
    ELSE LET m1  == [m EXCEPT !.command = buf]
             res == IF m1.command = "run"
                    THEN servo_motor_class_set_position(m1, m1.position,
                                                        m1.polarity, r)
                    ELSE Result(m1, r, <<>>, <<DrvCall("set_position", 0, r)>>)
         IN  IF res.ret # 0 THEN Result(m, res.ret, <<>>, res.calls)
             ELSE Result(res.motor, Len(buf), <<>>, res.calls)

command_store(m, buf, r) ==
    IF \A i \in 1..Len(servo_motor_command_values) :
           servo_motor_command_values[i] # buf
    THEN Result(m, -EINVAL, <<>>, <<>>)
    ELSE IF m.command = buf THEN Result(m, Len(buf), <<>>, <<>>)
    ELSE LET m1  == [m EXCEPT !.command = buf]
             res == IF m1.command = "run"
                    THEN servo_motor_class_set_position(m1, m1.position,
                                                        m1.polarity, r)
                    ELSE Result(m1, r, <<>>, <<DrvCall("set_position", 0, r)>>)
         IN  IF res.ret # 0 THEN res
             ELSE Result(res.motor, Len(buf), <<>>, res.calls)

polarity_store_mutant(m, buf, r) ==
    \* the slip of applying the polarity without comparing it to the stored one
    IF \A i \in 1..Len(servo_motor_polarity_values) :
           servo_motor_polarity_values[i] # buf
    THEN Result(m, -EINVAL, <<>>, <<>>)
    ELSE LET res == servo_motor_class_set_position(m, m.position, buf, r)
         IN  IF res.ret # 0 THEN res
             ELSE Result(res.motor, Len(buf), <<>>, res.calls)

polarity_store(m, buf, r) ==
    IF \A i \in 1..Len(servo_motor_polarity_values) :
           servo_motor_polarity_values[i] # buf
    THEN Result(m, -EINVAL, <<>>, <<>>)
    ELSE IF m.polarity = buf THEN Result(m, Len(buf), <<>>, <<>>)
    ELSE LET res == servo_motor_class_set_position(m, m.position, buf, r)
         IN  IF res.ret # 0 THEN res
             ELSE Result(res.motor, Len(buf), <<>>, res.calls)

position_store_mutant(m, buf, r) ==
    \* the stored position put back when the driver fails
    LET sc == ScanInt(buf)
    IN  IF sc.n # 1 \/ sc.value > 100 \/ sc.value < -100
        THEN Result(m, -EINVAL, <<>>, <<>>)
        ELSE IF m.position = sc.value THEN Result(m, Len(buf), <<>>, <<>>)
        ELSE LET res == servo_motor_class_set_position(m, sc.value, m.polarity, r)
             IN  IF res.ret # 0 THEN Result(m, res.ret, <<>>, res.calls)
                 ELSE Result(res.motor, Len(buf), <<>>, res.calls)

position_store_mutant_and(m, buf, r) ==
    \* the slip of && for || between the two limits: no value is refused
    LET sc == ScanInt(buf)
    IN  IF sc.n # 1 \/ (sc.value > 100 /\ sc.value < -100)
        THEN Result(m, -EINVAL, <<>>, <<>>)
        ELSE IF m.position = sc.value THEN Result(m, Len(buf), <<>>, <<>>)
        ELSE LET res == servo_motor_class_set_position(m, sc.value, m.polarity, r)
             IN  IF res.ret # 0 THEN res
                 ELSE Result(res.motor, Len(buf), <<>>, res.calls)

position_store(m, buf, r) ==
    LET sc == ScanInt(buf)
    IN  IF sc.n # 1 \/ sc.value > 100 \/ sc.value < -100
        THEN Result(m, -EINVAL, <<>>, <<>>)
        ELSE IF m.position = sc.value THEN Result(m, Len(buf), <<>>, <<>>)
        ELSE LET res == servo_motor_class_set_position(m, sc.value, m.polarity, r)
             IN  IF res.ret # 0 THEN res
                 ELSE Result(res.motor, Len(buf), <<>>, res.calls)

position_show_mutant(m, g) ==
    \* the slip of reading the pulse on one range, min_pulse_ms to max_pulse_ms
    LET call == <<DrvCall("get_position", 0, g)>>
        val  == IF g = 0 THEN m.position
                ELSE servo_motor_class_scale(long_bits, m.min_pulse_ms,
                                             m.max_pulse_ms, -100, 100, g)
    IN  IF g < 0 THEN Result(m, g, <<>>, call)
        ELSE Result(m, Len(FormatLine(val)), FormatLine(val), call)

position_show_mutant_polarity(m, g) ==
    \* a read side that undoes the polarity: the reading negated when inverted
    LET call == <<DrvCall("get_position", 0, g)>>
        pct  == IF g < m.mid_pulse_ms
                THEN servo_motor_class_scale(long_bits, m.min_pulse_ms,
                                             m.mid_pulse_ms, -100, 0, g)
                ELSE servo_motor_class_scale(long_bits, m.mid_pulse_ms,
                                             m.max_pulse_ms, 0, 100, g)
        val  == IF g = 0 THEN m.position
                ELSE IF m.polarity = "inverted" THEN -pct ELSE pct
    IN  IF g < 0 THEN Result(m, g, <<>>, call)
        ELSE Result(m, Len(FormatLine(val)), FormatLine(val), call)

\* g is what motor->ops.get_position returns
position_show(m, g) ==
    LET call == <<DrvCall("get_position", 0, g)>>
        val  == IF g = 0 THEN m.position
                ELSE IF g < m.mid_pulse_ms
                THEN servo_motor_class_scale(long_bits, m.min_pulse_ms,
                                             m.mid_pulse_ms, -100, 0, g)
                ELSE servo_motor_class_scale(long_bits, m.mid_pulse_ms,
                                             m.max_pulse_ms, 0, 100, g)
    IN  IF g < 0 THEN Result(m, g, <<>>, call)
        ELSE Result(m, Len(FormatLine(val)), FormatLine(val), call)

\* rate_show: ops is the driver's table (get_rate is TRUE when the pointer is
\* set), g what motor->ops.get_rate returns
rate_show(m, ops, g) ==
    IF ~ops.get_rate THEN Result(m, -ENOSYS, <<>>, <<>>)
    ELSE LET call == <<DrvCall("get_rate", 0, g)>>
         IN  IF g < 0 THEN Result(m, g, <<>>, call)
             ELSE Result(m, Len(FormatLine(g)), FormatLine(g), call)

rate_store_mutant(m, ops, buf, r) ==
    \* the slip of reading the number before looking for the driver's operation
    LET sc == ScanUnsigned(buf)
    IN  IF sc.n # 1 THEN Result(m, -EINVAL, <<>>, <<>>)
        ELSE IF ~ops.set_rate THEN Result(m, -ENOSYS, <<>>, <<>>)
        ELSE LET call == <<DrvCall("set_rate", sc.value, r)>>
             IN  IF r < 0 THEN Result(m, r, <<>>, call)
                 ELSE Result(m, Len(buf), <<>>, call)

\* rate_store: r is what motor->ops.set_rate returns
rate_store(m, ops, buf, r) ==
    IF ~ops.set_rate THEN Result(m, -ENOSYS, <<>>, <<>>)
    ELSE LET sc == ScanUnsigned(buf)
         IN  IF sc.n # 1 THEN Result(m, -EINVAL, <<>>, <<>>)
             ELSE LET call == <<DrvCall("set_rate", sc.value, r)>>
                  IN  IF r < 0 THEN Result(m, r, <<>>, call)
                      ELSE Result(m, Len(buf), <<>>, call)

servo_motor_class_get_command_mutant(g) ==
    \* the slip of taking a driven motor for a floating one
    IF g < 0 THEN [ret |-> g, command |-> "float"]
    ELSE [ret |-> 0, command |-> IF g # 0 THEN "float" ELSE "run"]

\* ret < 0 is the driver's error; otherwise command is the value returned
servo_motor_class_get_command(g) ==
    IF g < 0 THEN [ret |-> g, command |-> "float"]
    ELSE [ret |-> 0, command |-> IF g # 0 THEN "run" ELSE "float"]

(***************************************************************************)
(* Inputs.  PosSteps and PulseSteps set how finely the positions and the   *)
(* pulse ranges are sampled; the values the documentation names (40, 50,   *)
(* the defaults 600/1500/2400) and values outside the ranges are always    *)
(* among the inputs.                                                       *)
(***************************************************************************)
PosSteps == 1
PulseSteps == 1

PositionValues ==
    {(100 * i) \div PosSteps : i \in 0..PosSteps}
        \cup {-((100 * i) \div PosSteps) : i \in 0..PosSteps} \cup {40, 50}

Junk == <<"x">>

PositionBufs == {FormatInt(v) : v \in PositionValues \cup {-101, 150}} \cup {Junk}

\* PulseSteps values inside lo..hi, off the multiples of 100
PulseSamples(lo, hi) ==
    {lo + (((hi - lo) * i) \div (2 * PulseSteps + 1)) : i \in 1..PulseSteps}

MinPulseValues == PulseSamples(300, 700) \cup {600}
MidPulseValues == PulseSamples(1300, 1700) \cup {1500}
MaxPulseValues == PulseSamples(2300, 2700) \cup {2400}

MinPulseBufs == {FormatInt(v) : v \in MinPulseValues \cup {250, 701}}
MidPulseBufs == {FormatInt(v) : v \in MidPulseValues \cup {1299, 1800}}
MaxPulseBufs == {FormatInt(v) : v \in MaxPulseValues \cup {2299, 2800}}

CommandBufs == {"run", "float", "brake"}
PolarityBufs == {"normal", "inverted", "reversed"}

\* the pulse the driver drives when the class registers the motor
InitialPulses == {0, 1500}

NoCall == [op |-> "none", buf |-> <<>>, ret |-> 0, out |-> <<>>, calls |-> <<>>]
NoScaleCall == [called |-> FALSE]
NoConc == [on |-> FALSE]

(***************************************************************************)
(* Specification Spec: one motor, one caller at a time, a driver whose     *)
(* calls succeed.  SpecFaulty (below) is the same motor over faulty        *)
(* hardware.                                                               *)
(***************************************************************************)
Unregistered ==
    [min_pulse_ms |-> 0, mid_pulse_ms |-> 0, max_pulse_ms |-> 0,
     command |-> "run", polarity |-> "normal", position |-> 0]

Init ==
    /\ motor = Unregistered
    /\ live = FALSE
    /\ drv \in [pulse : InitialPulses, faulty : {FALSE}]
    /\ last = NoCall
    /\ long_bits \in LongBits
    /\ scale_call = NoScaleCall
    /\ conc = NoConc

\* the step of a handler: what it leaves in the motor and the driver
Handled(op, buf, res) ==
    /\ motor' = res.motor
    /\ drv' = DrvAfter(drv, res.calls)
    /\ last' = [op |-> op, buf |-> buf, ret |-> res.ret, out |-> res.out,
                calls |-> res.calls]
    /\ UNCHANGED <<live, long_bits, scale_call, conc>>

\* register_servo_motor: g is the driver's get_position, dr device_register's result
register_servo_motor(m, g, dr) ==
    LET m1  == [m EXCEPT !.min_pulse_ms = 600, !.mid_pulse_ms = 1500,
                         !.max_pulse_ms = 2400]
        cmd == servo_motor_class_get_command(g)
        call == <<DrvCall("get_position", 0, g)>>
    IN  IF cmd.ret < 0 THEN Result(m1, cmd.ret, <<>>, call)
        ELSE Result([m1 EXCEPT !.command = cmd.command], dr, <<>>, call)

Register ==
    /\ ~live
    /\ \E g \in {drv.pulse} \cup DrvErrors(drv), dr \in {0, -ENOMEM} :
         LET res == register_servo_motor(motor, g, dr)
         IN  /\ motor' = res.motor
             /\ live' = (res.ret = 0)
             /\ last' = [op |-> "register", buf |-> <<>>, ret |-> res.ret,
                         out |-> <<>>, calls |-> res.calls]
             /\ drv' = DrvAfter(drv, res.calls)
             /\ UNCHANGED <<long_bits, scale_call, conc>>

MinPulseMsStore ==
    /\ live
    /\ \E buf \in MinPulseBufs :
         Handled("min_pulse_ms_store", buf, min_pulse_ms_store(motor, buf))

MidPulseMsStore ==
    /\ live
    /\ \E buf \in MidPulseBufs :
         Handled("mid_pulse_ms_store", buf, mid_pulse_ms_store(motor, buf))

MaxPulseMsStore ==
    /\ live
    /\ \E buf \in MaxPulseBufs :
         Handled("max_pulse_ms_store", buf, max_pulse_ms_store(motor, buf))

CommandStore ==
    /\ live
    /\ \E buf \in CommandBufs, r \in DrvRets(drv) :
         Handled("command_store", buf, command_store(motor, buf, r))

PolarityStore ==
    /\ live
    /\ \E buf \in PolarityBufs, r \in DrvRets(drv) :
         Handled("polarity_store", buf, polarity_store(motor, buf, r))

PositionStore ==
    /\ live
    /\ \E buf \in PositionBufs, r \in DrvRets(drv) :
         Handled("position_store", buf, position_store(motor, buf, r))

PositionShow ==
    /\ live
    /\ \E g \in {drv.pulse} \cup DrvErrors(drv) :
         Handled("position_show", <<>>, position_show(motor, g))

Next ==
    \/ Register
    \/ MinPulseMsStore
    \/ MidPulseMsStore
    \/ MaxPulseMsStore
    \/ CommandStore
    \/ PolarityStore
    \/ PositionStore
    \/ PositionShow

Spec == Init /\ [][Next]_vars

(***************************************************************************)
(* Specification SpecFaulty: the motor over faulty hardware, where any     *)
(* call of the driver may fail with -EIO; the pulse configuration stays    *)
(* the one registration sets.                                              *)
(***************************************************************************)
InitFaulty ==
    /\ motor = Unregistered
    /\ live = FALSE
    /\ drv \in [pulse : InitialPulses, faulty : {TRUE}]
    /\ last = NoCall
    /\ long_bits \in LongBits
    /\ scale_call = NoScaleCall
    /\ conc = NoConc

NextFaulty ==
    \/ Register
    \/ CommandStore
    \/ PolarityStore
    \/ PositionStore
    \/ PositionShow

SpecFaulty == InitFaulty /\ [][NextFaulty]_vars

(***************************************************************************)
(* Properties.                                                             *)
(***************************************************************************)

\* the pulse the documentation gives for a stored position and polarity:
\* mid + p (max - mid) / 100 above the middle, min + (p + 100)(mid - min) / 100
\* at or below it, p being the position, negated when the polarity is inverted
DocPulse(m) ==
    LET p == IF m.polarity = "inverted" THEN -m.position ELSE m.position
    IN  IF p > 0
        THEN m.mid_pulse_ms + ((p * (m.max_pulse_ms - m.mid_pulse_ms)) \div 100)
        ELSE m.min_pulse_ms + (((p + 100) * (m.mid_pulse_ms - m.min_pulse_ms)) \div 100)

DefaultConfig(m) ==
    m.min_pulse_ms = 600 /\ m.mid_pulse_ms = 1500 /\ m.max_pulse_ms = 2400

SameConfig(m, n) ==
    /\ m.min_pulse_ms = n.min_pulse_ms
    /\ m.mid_pulse_ms = n.mid_pulse_ms
    /\ m.max_pulse_ms = n.max_pulse_ms

\* the calls a handler made are one set_position with this pulse
SentOnce(calls, pulse) ==
    /\ Len(calls) = 1
    /\ calls[1].fn = "set_position"
    /\ calls[1].arg = pulse

\* C1: a write of "run" to command while the command is float calls the driver's
\* set_position exactly once, with the pulse the documentation gives for the
\* stored position, polarity and pulse bounds; position 50, normal polarity and
\* the default bounds give the pulse 1950.
C1_FloatToRunSendsPulse ==
    [][(live /\ motor.command = "float"
          /\ last'.op = "command_store" /\ last'.buf = "run")
       => /\ SentOnce(last'.calls, DocPulse(motor))
          /\ (motor.position = 50 /\ motor.polarity = "normal" /\ DefaultConfig(motor)
                => SentOnce(last'.calls, 1950))]_vars

C1_Witness ==
    /\ live /\ last.op = "command_store" /\ last.buf = "run"
    /\ motor.position = 50 /\ motor.polarity = "normal" /\ DefaultConfig(motor)
    /\ SentOnce(last.calls, 1950)

\* C2: a write of "float" to command while the command is run calls the driver's
\* set_position exactly once with 0 and leaves the stored position, polarity and
\* pulse bounds as they were.
C2_RunToFloatSendsZero ==
    [][(live /\ motor.command = "run"
          /\ last'.op = "command_store" /\ last'.buf = "float")
       => /\ SentOnce(last'.calls, 0)
          /\ motor'.position = motor.position
          /\ motor'.polarity = motor.polarity
          /\ SameConfig(motor', motor)]_vars

C2_Witness ==
    /\ live /\ last.op = "command_store" /\ last.buf = "float"
    /\ SentOnce(last.calls, 0)
    /\ motor.position = 100 /\ motor.polarity = "inverted" /\ ~DefaultConfig(motor)

\* a write to position or polarity that the handler accepts
ValidPositionBuf(buf) ==
    ScanInt(buf).n = 1 /\ ScanInt(buf).value <= 100 /\ ScanInt(buf).value >= -100

ValidPolarityBuf(buf) == buf \in {"normal", "inverted"}

\* C3: while the command is float, a write of a valid position or polarity
\* succeeds though the driver's hardware is faulty, is stored, and makes no call of
\* the driver; the next write of "run" sends the pulse of the stored values.
C3_FloatStagesWithoutDriver ==
    [][(live /\ motor.command = "float")
       => /\ (last'.op = "position_store" /\ ValidPositionBuf(last'.buf))
               => /\ last'.ret = Len(last'.buf)
                  /\ last'.calls = <<>>
                  /\ motor'.position = ScanInt(last'.buf).value
          /\ (last'.op = "polarity_store" /\ ValidPolarityBuf(last'.buf))
               => /\ last'.ret = Len(last'.buf)
                  /\ last'.calls = <<>>
                  /\ motor'.polarity = last'.buf
          /\ (last'.op = "command_store" /\ last'.buf = "run")
               => SentOnce(last'.calls, DocPulse(motor))]_vars

C3_Witness ==
    /\ live /\ drv.faulty /\ motor.command = "float"
    /\ last.op = "polarity_store" /\ last.buf = "inverted"
    /\ last.ret = Len(last.buf) /\ last.calls = <<>>
    /\ motor.polarity = "inverted" /\ motor.position = 50

\* C4: when the driver's set_position fails inside a write to command, polarity
\* or position, the write returns the driver's error and the stored command,
\* polarity or position is the one written.
C4_NoRollbackOnDriverError ==
    (live /\ last.calls # <<>> /\ last.calls[1].fn = "set_position"
       /\ last.calls[1].ret < 0)
    => /\ last.ret = last.calls[1].ret
       /\ last.op = "command_store" => motor.command = last.buf
       /\ last.op = "polarity_store" => motor.polarity = last.buf
       /\ last.op = "position_store" => motor.position = ScanInt(last.buf).value

C4_Witness ==
    /\ live /\ last.op = "position_store" /\ last.ret = -EIO
    /\ SentOnce(last.calls, 1950) /\ motor.position = 50 /\ drv.pulse # 1950

\* C5: a registered motor always has min_pulse_ms < mid_pulse_ms < max_pulse_ms,
\* whatever writes to the three attributes were accepted or rejected.
C5_PulseOrder ==
    live => /\ motor.min_pulse_ms < motor.mid_pulse_ms
            /\ motor.mid_pulse_ms < motor.max_pulse_ms

C5_Witness ==
    /\ live /\ last.op = "min_pulse_ms_store" /\ last.ret = -EINVAL
    /\ motor.min_pulse_ms # 600 /\ motor.mid_pulse_ms # 1500
    /\ motor.max_pulse_ms # 2400

Abs(x) == IF x < 0 THEN -x ELSE x

\* the last handler was a write to position that reached the driver and succeeded
PositionWritten(l) ==
    /\ l.op = "position_store" /\ l.ret = Len(l.buf)
    /\ l.calls # <<>> /\ l.calls[1].ret = 0

\* C6: with normal polarity and the command run, a read of position right after
\* a successful write of a new position v, over a driver that reads back the
\* pulse it was given, prints a value within 1 of v, and v itself under the
\* default bounds 600/1500/2400.
C6_ReadBackWithinOne ==
    [][(live /\ PositionWritten(last) /\ motor.command = "run"
          /\ motor.polarity = "normal"
          /\ last'.op = "position_show" /\ last'.ret > 0)
       => LET v == ScanInt(last.buf).value
              r == ScanInt(last'.out).value
          IN  /\ ScanInt(last'.out).n = 1
              /\ Abs(r - v) <= 1
              /\ DefaultConfig(motor) => r = v]_vars

\* a read that lost one percent to the truncation of the two scalings
C6_Witness ==
    /\ live /\ last.op = "position_show" /\ last.out = FormatLine(49)
    /\ motor.position = 50 /\ motor.command = "run" /\ motor.polarity = "normal"
    /\ drv.pulse = ScaledPosition(motor, 50, "normal")

\* the last handler applied the stored position: it sent a pulse that
\* servo_motor_class_set_position computed
Applied ==
    /\ live /\ last.calls # <<>> /\ last.calls[1].fn = "set_position"
    /\ ~(last.op = "command_store" /\ last.buf = "float")

SentPulse == last.calls[1].arg

\* the symmetry and the end points of the two polarities
PolaritySymmetry ==
    /\ motor.polarity = "inverted"
         => SentPulse = ScaledPosition(motor, -motor.position, "normal")
    /\ (motor.polarity = "normal" /\ motor.position = -100)
         => SentPulse = motor.min_pulse_ms
    /\ (motor.polarity = "normal" /\ motor.position = 0)
         => SentPulse = motor.mid_pulse_ms
    /\ (motor.polarity = "normal" /\ motor.position = 100)
         => SentPulse = motor.max_pulse_ms
    /\ (motor.polarity = "inverted" /\ motor.position = -100)
         => SentPulse = motor.max_pulse_ms
    /\ (motor.polarity = "inverted" /\ motor.position = 100)
         => SentPulse = motor.min_pulse_ms

InvertedForty ==
    motor.polarity = "inverted" /\ motor.position = 40 /\ DefaultConfig(motor)

\* C7 as stated: the pulse sent for a position under the inverted polarity is the
\* pulse of the negated position under the normal polarity, -100, 0 and 100 are
\* sent as min, mid and max (max and min when inverted), and position 40,
\* inverted, default bounds, is sent as 900.
C7_Original ==
    Applied => /\ PolaritySymmetry
               /\ InvertedForty => SentPulse = 900

\* C7 as amended: the same, with position 40, inverted, default bounds sent as
\* 1140 = 600 + 60 * 900 / 100.
C7_InvertedIsNegatedNormal ==
    Applied => /\ PolaritySymmetry
               /\ InvertedForty => SentPulse = 1140

C7_Witness ==
    Applied /\ InvertedForty /\ SentPulse = 1140

PulseStores == {"min_pulse_ms_store", "mid_pulse_ms_store", "max_pulse_ms_store"}

\* C9: after an accepted write to min_pulse_ms, mid_pulse_ms or max_pulse_ms
\* while the command is run, the next successful write of any valid position
\* calls the driver's set_position with the pulse of that position under the new
\* bounds.
C9_PositionWriteAppliesBounds ==
    [][(live /\ last.op \in PulseStores /\ last.ret > 0 /\ motor.command = "run"
          /\ last'.op = "position_store" /\ last'.ret > 0)
       => SentOnce(last'.calls, DocPulse(motor'))]_vars

(***************************************************************************)
(* Specification SpecScale: servo_motor_class_scale called once, with      *)
(* arguments among the percentages and pulse lengths the class works on,   *)
(* in_max > in_min.                                                        *)
(***************************************************************************)
ScaleValues == {-100, 0, 100, 300, 600, 1500, 2400}

InitScale ==
    /\ motor = Unregistered
    /\ live = FALSE
    /\ drv \in [pulse : {0}, faulty : {FALSE}]
    /\ last = NoCall
    /\ long_bits \in LongBits
    /\ scale_call = NoScaleCall
    /\ conc = NoConc

ScaleCall ==
    /\ ~scale_call.called
    /\ \E in_min \in ScaleValues, in_max \in ScaleValues, out_min \in ScaleValues,
          out_max \in ScaleValues, value \in ScaleValues :
         /\ in_max > in_min
         /\ scale_call' =
              [called |-> TRUE, in_min |-> in_min, in_max |-> in_max,
               out_min |-> out_min, out_max |-> out_max, value |-> value,
               result |-> servo_motor_class_scale(long_bits, in_min, in_max,
                                                  out_min, out_max, value)]
    /\ UNCHANGED <<motor, live, drv, last, long_bits, conc>>

NextScale == ScaleCall

SpecScale == InitScale /\ [][NextScale]_vars

\* C8: for arguments between -100 and 2700 with in_max > in_min, value below
\* in_min and negative out_min included, servo_motor_class_scale returns
\* (value - in_min) * (out_max - out_min) / (in_max - in_min), truncated toward
\* zero, plus out_min; so scale(0,100,1500,2400,0) = 1500,
\* scale(0,100,1500,2400,100) = 2400 and scale(-100,0,600,1500,-100) = 600.
C8_ScaleIsTruncatedLinearMap ==
    scale_call.called =>
        scale_call.result =
            TruncDiv((scale_call.value - scale_call.in_min)
                        * (scale_call.out_max - scale_call.out_min),
                     scale_call.in_max - scale_call.in_min)
              + scale_call.out_min

(***************************************************************************)
(* Specification SpecConc: two writers run one handler each on the same    *)
(* registered motor.  The handlers take no lock, so a step is one access   *)
(* to a field of the motor or one call of the driver; the labels name the  *)
(* source lines.  The driver never fails and the pulse bounds are the      *)
(* defaults.  conc.th[t] is writer t: its handler, the text written, its   *)
(* position in the handler and its locals.                                 *)
(***************************************************************************)
Threads == {1, 2}

ConcCalls ==
    [op : {"command_store"}, buf : {"run", "float"}]
        \cup [op : {"polarity_store"}, buf : {"normal", "inverted"}]
        \cup [op : {"position_store"}, buf : {FormatInt(0), FormatInt(50)}]

Entry(op) ==
    CASE op = "command_store" -> "cs_cmp"
      [] op = "polarity_store" -> "pl_cmp"
      [] op = "position_store" -> "ps_cmp"

\* a registered motor at rest: floating, or driven at its stored position
RestingMotors ==
    {[min_pulse_ms |-> 600, mid_pulse_ms |-> 1500, max_pulse_ms |-> 2400,
      command |-> c, polarity |-> q, position |-> v] :
        c \in {"run", "float"}, q \in {"normal", "inverted"}, v \in {0, 50}}

RestingDriver(m) ==
    [pulse |-> IF m.command = "run" THEN ScaledPosition(m, m.position, m.polarity)
               ELSE 0,
     faulty |-> FALSE]

NewThread(call) ==
    [op |-> call.op, buf |-> call.buf, pc |-> Entry(call.op),
     new_position |-> 0, new_polarity |-> "normal"]

InitConc ==
    /\ long_bits \in LongBits
    /\ motor \in RestingMotors
    /\ live = TRUE
    /\ drv = RestingDriver(motor)
    /\ last = NoCall
    /\ scale_call = NoScaleCall
    /\ \E c1 \in ConcCalls, c2 \in ConcCalls :
         conc = [on |-> TRUE, start |-> [motor |-> motor, drv |-> drv],
                 th |-> <<NewThread(c1), NewThread(c2)>>]

At(t, pc) == conc.on /\ conc.th[t].pc = pc

Goto(t, pc) == conc' = [conc EXCEPT !.th[t].pc = pc]

ConcFrame == UNCHANGED <<live, last, long_bits, scale_call>>

\* command_store, line 249: if (motor->command == i) return size
CsCmp(t) ==
    /\ At(t, "cs_cmp")
    /\ Goto(t, IF motor.command = conc.th[t].buf THEN "done" ELSE "cs_write")
    /\ UNCHANGED <<motor, drv>> /\ ConcFrame

\* line 252: motor->command = i
CsWrite(t) ==
    /\ At(t, "cs_write")
    /\ motor' = [motor EXCEPT !.command = conc.th[t].buf]
    /\ Goto(t, "cs_test")
    /\ UNCHANGED drv /\ ConcFrame

\* line 253: if (motor->command == SERVO_MOTOR_COMMAND_RUN)
CsTest(t) ==
    /\ At(t, "cs_test")
    /\ Goto(t, IF motor.command = "run" THEN "cs_arg_position" ELSE "cs_float")
    /\ UNCHANGED <<motor, drv>> /\ ConcFrame

\* line 254: the argument motor->position
CsArgPosition(t) ==
    /\ At(t, "cs_arg_position")
    /\ conc' = [conc EXCEPT !.th[t].new_position = motor.position,
                            !.th[t].pc = "cs_arg_polarity"]
    /\ UNCHANGED <<motor, drv>> /\ ConcFrame

\* line 255: the argument motor->polarity
CsArgPolarity(t) ==
    /\ At(t, "cs_arg_polarity")
    /\ conc' = [conc EXCEPT !.th[t].new_polarity = motor.polarity,
                            !.th[t].pc = "sp_polarity"]
    /\ UNCHANGED <<motor, drv>> /\ ConcFrame

\* line 257: motor->ops.set_position(motor->context, 0)
CsFloat(t) ==
    /\ At(t, "cs_float")
    /\ drv' = [drv EXCEPT !.pulse = 0]
    /\ Goto(t, "done")
    /\ UNCHANGED motor /\ ConcFrame

\* polarity_store, line 284: if (motor->polarity != i)
PlCmp(t) ==
    /\ At(t, "pl_cmp")
    /\ Goto(t, IF motor.polarity # conc.th[t].buf THEN "pl_arg" ELSE "done")
    /\ UNCHANGED <<motor, drv>> /\ ConcFrame

\* lines 285-286: the arguments motor->position and i
PlArg(t) ==
    /\ At(t, "pl_arg")
    /\ conc' = [conc EXCEPT !.th[t].new_position = motor.position,
                            !.th[t].new_polarity = conc.th[t].buf,
                            !.th[t].pc = "sp_polarity"]
    /\ UNCHANGED <<motor, drv>> /\ ConcFrame

\* position_store, line 324: if (motor->position != value)
PsCmp(t) ==
    /\ At(t, "ps_cmp")
    /\ Goto(t, IF motor.position # ScanInt(conc.th[t].buf).value
               THEN "ps_arg" ELSE "done")
    /\ UNCHANGED <<motor, drv>> /\ ConcFrame

\* lines 325-326: the arguments value and motor->polarity
PsArg(t) ==
    /\ At(t, "ps_arg")
    /\ conc' = [conc EXCEPT !.th[t].new_position = ScanInt(conc.th[t].buf).value,
                            !.th[t].new_polarity = motor.polarity,
                            !.th[t].pc = "sp_polarity"]
    /\ UNCHANGED <<motor, drv>> /\ ConcFrame

\* servo_motor_class_set_position, line 131: motor->polarity = new_polarity
SpPolarity(t) ==
    /\ At(t, "sp_polarity")
    /\ motor' = [motor EXCEPT !.polarity = conc.th[t].new_polarity]
    /\ Goto(t, "sp_position")
    /\ UNCHANGED drv /\ ConcFrame

\* line 132: motor->position = new_position
SpPosition(t) ==
    /\ At(t, "sp_position")
    /\ motor' = [motor EXCEPT !.position = conc.th[t].new_position]
    /\ Goto(t, "sp_test")
    /\ UNCHANGED drv /\ ConcFrame

\* line 134: if (motor->command == SERVO_MOTOR_COMMAND_RUN)
SpTest(t) ==
    /\ At(t, "sp_test")
    /\ Goto(t, IF motor.command = "run" THEN "sp_drive" ELSE "done")
    /\ UNCHANGED <<motor, drv>> /\ ConcFrame

\* lines 135-145: the pulse of the arguments, handed to the driver
SpDrive(t) ==
    /\ At(t, "sp_drive")
    /\ drv' = [drv EXCEPT !.pulse = ScaledPosition(motor, conc.th[t].new_position,
                                                   conc.th[t].new_polarity)]
    /\ Goto(t, "done")
    /\ UNCHANGED motor /\ ConcFrame

NextConc ==
    \E t \in Threads :
        \/ CsCmp(t)
        \/ CsWrite(t)
        \/ CsTest(t)
        \/ CsArgPosition(t)
        \/ CsArgPolarity(t)
        \/ CsFloat(t)
        \/ PlCmp(t)
        \/ PlArg(t)
        \/ PsCmp(t)
        \/ PsArg(t)
        \/ SpPolarity(t)
        \/ SpPosition(t)
        \/ SpTest(t)
        \/ SpDrive(t)

SpecConc == InitConc /\ [][NextConc]_vars

\* what a handler leaves when it runs alone, start to end, over a driver that
\* accepts its call
RunAlone(st, th) ==
    LET res == CASE th.op = "command_store" -> command_store(st.motor, th.buf, 0)
                 [] th.op = "polarity_store" -> polarity_store(st.motor, th.buf, 0)
                 [] th.op = "position_store" -> position_store(st.motor, th.buf, 0)
    IN  [motor |-> res.motor, drv |-> DrvAfter(st.drv, res.calls)]

AllReturned == conc.on /\ \A t \in Threads : conc.th[t].pc = "done"

\* C10: once two concurrent writes to command, position or polarity of one motor
\* have returned, the stored command, polarity and position and the pulse the
\* driver was last given are those of the two handlers run one after the other
\* in some order; in particular the command float goes with the pulse 0.
C10_HandlersAreAtomic ==
    AllReturned =>
        /\ [motor |-> motor, drv |-> drv]
             \in {RunAlone(RunAlone(conc.start, conc.th[1]), conc.th[2]),
                  RunAlone(RunAlone(conc.start, conc.th[2]), conc.th[1])}
        /\ motor.command = "float" => drv.pulse = 0

(***************************************************************************)
(* Rejected writes and the frame of the pulse attributes.                  *)
(***************************************************************************)

\* a write to position of a number outside -100..100
OutOfRangePositionBuf(buf) ==
    /\ ScanInt(buf).n = 1
    /\ (ScanInt(buf).value > 100 \/ ScanInt(buf).value < -100)

\* C11: a write to position of a number above 100 or below -100 (150, -101)
\* returns -EINVAL whatever the command, polarity, position and pulse bounds
\* are, makes no call of the driver and leaves every stored field as it was.
C11_OutOfRangePositionRefused ==
    [][(live /\ last'.op = "position_store" /\ OutOfRangePositionBuf(last'.buf))
       => /\ last'.ret = -EINVAL
          /\ last'.calls = <<>>
          /\ motor' = motor
          /\ drv' = drv]_vars

C11_Witness ==
    /\ live /\ last.op = "position_store" /\ last.buf = FormatInt(-101)
    /\ last.ret = -EINVAL /\ last.calls = <<>>
    /\ motor.command = "run" /\ motor.position = -100 /\ ~DefaultConfig(motor)

\* the field and the range of each pulse attribute, as documented
PulseRange(op) ==
    CASE op = "min_pulse_ms_store" -> [field |-> "min_pulse_ms", lo |-> 300, hi |-> 700]
      [] op = "mid_pulse_ms_store" -> [field |-> "mid_pulse_ms", lo |-> 1300, hi |-> 1700]
      [] op = "max_pulse_ms_store" -> [field |-> "max_pulse_ms", lo |-> 2300, hi |-> 2700]

\* C14: a write to min_pulse_ms, mid_pulse_ms or max_pulse_ms, accepted or
\* refused, with the command run or float, makes no call of the driver and
\* changes no stored field but the bound it names: the pulse the driver drives
\* stays the one it was given before.
C14_PulseStoreTouchesOneBound ==
    [][(live /\ last'.op \in PulseStores)
       => /\ last'.calls = <<>>
          /\ drv' = drv
          /\ \A f \in DOMAIN motor :
                f # PulseRange(last'.op).field => motor'[f] = motor[f]]_vars

\* an accepted bound that the driven pulse does not follow
C14_Witness ==
    /\ live /\ last.op = "min_pulse_ms_store" /\ last.ret > 0 /\ last.calls = <<>>
    /\ motor.command = "run" /\ motor.position = -100 /\ motor.polarity = "normal"
    /\ motor.min_pulse_ms # 600 /\ drv.pulse = 600

(***************************************************************************)
(* Specification SpecPulse: the three pulse attributes written with the    *)
(* limits of their ranges, the values next to the limits, values of the    *)
(* other attributes' ranges and text that is no number.                    *)
(***************************************************************************)
PulseEdges(lo, hi) == {lo - 1, lo, hi, hi + 1}

AnyPulseBufs(values, lo, hi) ==
    {FormatInt(v) : v \in values \cup PulseEdges(lo, hi) \cup {0, 600, 1500, 2400}}
        \cup {Junk, FormatInt(-600)}

MinPulseMsStoreAny ==
    /\ live
    /\ \E buf \in AnyPulseBufs(MinPulseValues, 300, 700) :
         Handled("min_pulse_ms_store", buf, min_pulse_ms_store(motor, buf))

MidPulseMsStoreAny ==
    /\ live
    /\ \E buf \in AnyPulseBufs(MidPulseValues, 1300, 1700) :
         Handled("mid_pulse_ms_store", buf, mid_pulse_ms_store(motor, buf))

MaxPulseMsStoreAny ==
    /\ live
    /\ \E buf \in AnyPulseBufs(MaxPulseValues, 2300, 2700) :
         Handled("max_pulse_ms_store", buf, max_pulse_ms_store(motor, buf))

NextPulse ==
    \/ Register
    \/ MinPulseMsStoreAny
    \/ MidPulseMsStoreAny
    \/ MaxPulseMsStoreAny

SpecPulse == Init /\ [][NextPulse]_vars

\* C12: a write of a number x to min_pulse_ms succeeds and stores x exactly
\* when 300 <= x <= 700, to mid_pulse_ms exactly when 1300 <= x <= 1700, to
\* max_pulse_ms exactly when 2300 <= x <= 2700; any other x (250, 1800, 2800)
\* is refused with -EINVAL and the three bounds stay as they were.
C12_PulseBoundAcceptedInRange ==
    [][(live /\ last'.op \in PulseStores /\ ScanUnsigned(last'.buf).n = 1)
       => LET x  == ScanUnsigned(last'.buf).value
              rg == PulseRange(last'.op)
          IN  IF rg.lo <= x /\ x <= rg.hi
              THEN /\ last'.ret = Len(last'.buf)
                   /\ motor'[rg.field] = x
              ELSE /\ last'.ret = -EINVAL
                   /\ SameConfig(motor', motor)]_vars

\* both limits stored, and a value one above the upper limit refused
C12_Witness ==
    /\ live /\ last.op = "max_pulse_ms_store" /\ last.buf = FormatInt(2701)
    /\ last.ret = -EINVAL
    /\ motor.min_pulse_ms = 300 /\ motor.mid_pulse_ms = 1700
    /\ motor.max_pulse_ms = 2700

(***************************************************************************)
(* Writes of the stored value, registration and retries, over faulty       *)
(* hardware (SpecFaulty).                                                  *)
(***************************************************************************)

\* the step returned success, called nothing and changed nothing
SelfNoOp ==
    /\ last'.ret = Len(last'.buf)
    /\ last'.calls = <<>>
    /\ motor' = motor
    /\ drv' = drv

\* C13: a write to command of the stored command, to polarity of the stored
\* polarity or to position of the stored position returns success, makes no
\* call of the driver, so that it succeeds over hardware whose calls fail, and
\* leaves every stored field as it was.
C13_SelfTransitionsAreNoOps ==
    [][live
       => /\ (last'.op = "command_store" /\ last'.buf = motor.command) => SelfNoOp
          /\ (last'.op = "polarity_store" /\ last'.buf = motor.polarity) => SelfNoOp
          /\ (last'.op = "position_store" /\ ScanInt(last'.buf).n = 1
                /\ ScanInt(last'.buf).value = motor.position) => SelfNoOp]_vars

C13_Witness ==
    /\ live /\ drv.faulty /\ motor.command = "run"
    /\ last.op = "position_store" /\ last.buf = FormatInt(50)
    /\ last.ret = Len(last.buf) /\ last.calls = <<>>
    /\ motor.position = 50 /\ drv.pulse = 1950

\* C16: register_servo_motor sets the pulse bounds to 600/1500/2400 and reads
\* the driver's get_position once; the motor it registers has the command run
\* exactly when the reading is positive and float exactly when it is zero; on a
\* negative reading it returns that error and registers no motor.
C16_RegistrationDerivesCommand ==
    [][(~live /\ last'.op = "register")
       => LET g == last'.calls[1].ret
          IN  /\ Len(last'.calls) = 1
              /\ last'.calls[1].fn = "get_position"
              /\ g < 0 => (last'.ret = g /\ ~live')
              /\ live' => /\ DefaultConfig(motor')
                          /\ motor'.command = "run" <=> g > 0
                          /\ motor'.command = "float" <=> g = 0]_vars

C16_Witness ==
    /\ live /\ drv.faulty /\ last.op = "register" /\ last.ret = 0
    /\ last.calls[1].ret = 1500 /\ motor.command = "run" /\ DefaultConfig(motor)

\* the handler called the driver's set_position and the call failed
DriverFailed(l) ==
    /\ l.calls # <<>> /\ l.calls[1].fn = "set_position" /\ l.calls[1].ret < 0

\* a write of another value that the handler accepts
OtherValue(op, buf, old) ==
    IF op = "position_store"
    THEN ValidPositionBuf(buf) /\ ScanInt(buf).value # ScanInt(old).value
    ELSE buf \in {"run", "float"} /\ buf # old

\* C18: right after a write to position or command that failed with the
\* driver's error, the same write again returns success without a call of the
\* driver, the stored field being the value written and the driver left as it
\* was; a write of another valid value calls the driver's set_position.
C18_RetryAfterFailureSkipsDriver ==
    [][(live /\ last.op \in {"position_store", "command_store"}
          /\ DriverFailed(last) /\ last'.op = last.op)
       => /\ last'.buf = last.buf
               => /\ SelfNoOp
                  /\ last.op = "position_store"
                        => motor'.position = ScanInt(last.buf).value
                  /\ last.op = "command_store" => motor'.command = last.buf
          /\ OtherValue(last.op, last'.buf, last.buf)
               => /\ last'.calls # <<>>
                  /\ last'.calls[1].fn = "set_position"]_vars

\* the command run stored and confirmed by the retry, over a driver that was
\* never given a pulse
C18_Witness ==
    /\ live /\ last.op = "command_store" /\ last.buf = "run"
    /\ last.ret = Len(last.buf) /\ last.calls = <<>>
    /\ motor.command = "run" /\ drv.pulse = 0

(***************************************************************************)
(* The pulses sent and the percentages read (Spec).                        *)
(***************************************************************************)

\* C17: the stored position of a registered motor stays within -100..100, and
\* every call of the driver's set_position carries either 0, in a write of
\* "float" to command that left the command run, or a pulse between the stored
\* min_pulse_ms and max_pulse_ms, hence between 300 and 2700.
C17_DriverPulseWithinBounds ==
    live => /\ -100 <= motor.position /\ motor.position <= 100
            /\ \A i \in 1..Len(last.calls) :
                  last.calls[i].fn = "set_position"
                  => \/ /\ last.calls[i].arg = 0
                        /\ last.op = "command_store" /\ last.buf = "float"
                     \/ /\ motor.min_pulse_ms <= last.calls[i].arg
                        /\ last.calls[i].arg <= motor.max_pulse_ms
                        /\ 300 <= last.calls[i].arg
                        /\ last.calls[i].arg <= 2700

\* position -100 sent as a changed min_pulse_ms
C17_Witness ==
    /\ live /\ last.op = "position_store" /\ motor.position = -100
    /\ motor.polarity = "normal" /\ motor.min_pulse_ms # 600
    /\ SentOnce(last.calls, motor.min_pulse_ms)

\* C19: over a driver that reads back the pulse it was last given (0 once
\* floated), after any sequence of writes to position, polarity, command and the
\* pulse bounds, a read of position prints a percentage between -100 and 100.
C19_ReadingIsAPercentage ==
    (live /\ last.op = "position_show" /\ last.ret > 0)
    => /\ ScanInt(last.out).n = 1
       /\ -100 <= ScanInt(last.out).value
       /\ ScanInt(last.out).value <= 100

\* the last handler was a write to position that succeeded
PositionStoreOk(l) ==
    /\ l.op = "position_store" /\ l.ret = Len(l.buf)

\* a read right after the write l, inverted polarity, command run, of a
\* position other than 0: the value read is within 1 of the negated position
\* and is not the position, which is the one stored
ReadsNegated(l) ==
    (/\ live /\ ScanInt(l.buf).value # 0
     /\ motor.command = "run" /\ motor.polarity = "inverted"
     /\ last'.op = "position_show" /\ last'.ret > 0)
    => LET v == ScanInt(l.buf).value
           r == ScanInt(last'.out).value
       IN  /\ ScanInt(last'.out).n = 1
           /\ Abs(r + v) <= 1
           /\ r # v
           /\ motor.position = v

RateValues == {0, 1000}

RateBufs == {FormatInt(v) : v \in RateValues} \cup {Junk, FormatInt(-5)}

\* the rate of the driver at registration
InitialRates == {500}

InitRate ==
    /\ motor = Unregistered
    /\ live = FALSE
    /\ drv \in [pulse : InitialPulses, faulty : BOOLEAN, get_rate : BOOLEAN,
                 set_rate : BOOLEAN, rate : InitialRates]
    /\ last = NoCall
    /\ long_bits \in LongBits
    /\ scale_call = NoScaleCall
    /\ conc = NoConc

\* the driver after a handler of rate: an accepted rate is the one kept
DrvAfterRate(d, calls) ==
    IF calls # <<>> /\ calls[1].fn = "set_rate" /\ calls[1].ret = 0
    THEN [d EXCEPT !.rate = calls[1].arg]
    ELSE d

RateHandled(op, buf, res) ==
    /\ motor' = res.motor
    /\ drv' = DrvAfterRate(drv, res.calls)
    /\ last' = [op |-> op, buf |-> buf, ret |-> res.ret, out |-> res.out,
                calls |-> res.calls]
    /\ UNCHANGED <<live, long_bits, scale_call, conc>>

RateShow ==
    /\ live
    /\ \E g \in {drv.rate} \cup DrvErrors(drv) :
         RateHandled("rate_show", <<>>, rate_show(motor, drv, g))

RateStore ==
    /\ live
    /\ \E buf \in RateBufs, r \in DrvRets(drv) :
         RateHandled("rate_store", buf, rate_store(motor, drv, buf, r))

NextRate ==
    \/ Register
    \/ CommandStore
    \/ PositionStore
    \/ RateShow
    \/ RateStore

SpecRate == InitRate /\ [][NextRate]_vars

\* the driver's table holds neither get_rate nor set_rate
NoRateCapability(d) == ~d.get_rate /\ ~d.set_rate

\* C15: over a driver without get_rate and set_rate, a read of rate and a write
\* to rate return -ENOSYS whatever the motor's state and the text written, text
\* that is no number included, make no call of the driver and change no stored
\* field.
C15_RateNotSupported ==
    [][(live /\ NoRateCapability(drv) /\ last'.op \in {"rate_show", "rate_store"})
       => /\ last'.ret = -ENOSYS
          /\ last'.calls = <<>>
          /\ motor' = motor
          /\ drv' = drv]_vars

C15_Witness ==
    /\ live /\ NoRateCapability(drv)
    /\ last.op = "rate_store" /\ last.buf = Junk /\ last.ret = -ENOSYS
    /\ motor.command = "run" /\ motor.position = 50

====
